---- MODULE Spec2Model ----
(***************************************************************************)
(* Model of botslacks: the command registry (CommandDispatcher,            *)
(* BotCommand), the argument splitter (parse_args), the Help command, the  *)
(* Jenkins command with its jobs, and the SlackBot session: start(), a     *)
(* coroutine, step by step from one suspension to the next, with the       *)
(* callbacks the event loop can run in between.                            *)
(*                                                                         *)
(* A Python str is a sequence of one-character strings, so that len,       *)
(* rjust, join, split and concatenation are computed and not assumed.      *)
(* Python's None is the value None below.                                  *)
(***************************************************************************)
EXTENDS Integers, Sequences, FiniteSets, TLC

VARIABLES
    dispatchers,    \* CommandDispatcher objects, by name: "bot" is SlackBot.commands, "jenkins" is Jenkins.commands
    op,             \* the last operation performed, its arguments and its outcome
    pc,             \* where start() is: "setup" (not called yet), suspended in "http", "json",
                    \* "connect", ws.recv ("running") or ws.send ("send"), or "crashed"
                    \* (start() ended by an exception)
    bot_id,         \* SlackBot.bot_id
    user_names,     \* SlackBot.user_names
    channel_names,  \* SlackBot.channel_names
    response_id,    \* the local response_id of SlackBot.start
    sent,           \* the responses handed to ws.send, in order
    calls,          \* the handler invocations made while processing the last event
    nrecv,          \* number of events ws.recv has returned
    jobs            \* Jenkins.jobs: key -> JenkinsJob(name, url)

vars ==
    <<dispatchers, op, pc, bot_id, user_names, channel_names, response_id, sent, calls,
      nrecv, jobs>>

----------------------------------------------------------------------------
(* Bounds of the model *)

\* longest text handed to parse_args in SpecSplit
MaxLen == 4
\* most commands registered on SlackBot.commands in SpecRegistry
MaxCommands == 2
\* most events received in one session
MaxEvents == 3

----------------------------------------------------------------------------
(* Python values *)

None == <<"None">>

Str(x) == x # None

\* truth value of an optional str: None and '' are falsy
Truthy(x) == x # None /\ x # <<>>

\* the backtick character, which TLA+ has no string literal for
Backtick == "BACKTICK"

\* str.isspace for one character: the characters str.split() separates on. A
\* character TLA+ has no string literal for is written as its code point.
Whitespace ==
    {"\t", "\n", "U+000B", "\f", "\r", "U+001C", "U+001D", "U+001E", "U+001F", " ",
     "U+0085", "U+00A0", "U+1680", "U+2000", "U+2001", "U+2002", "U+2003", "U+2004",
     "U+2005", "U+2006", "U+2007", "U+2008", "U+2009", "U+200A", "U+2028", "U+2029",
     "U+202F", "U+205F", "U+3000"}

\* the smallest index >= i of s whose character is (ws) / is not (~ws) whitespace, Len(s)+1 if none
Scan(s, i, ws) ==
    LET hits == {k \in i..Len(s) : (s[k] \in Whitespace) = ws}
    IN  IF hits = {} THEN Len(s) + 1 ELSE CHOOSE k \in hits : \A m \in hits : k <= m

\* s.split(maxsplit=1) giving up one separator character instead of the whole run
split_maxsplit1_one_separator(s) ==
    LET i == Scan(s, 1, FALSE)
        j == Scan(s, i, TRUE)
        k == j + 1
    IN  IF i > Len(s) THEN <<>>
        ELSE IF k > Len(s) THEN <<SubSeq(s, i, j - 1)>>
        ELSE <<SubSeq(s, i, j - 1), SubSeq(s, k, Len(s))>>

\* s.split(maxsplit=1): the list of at most two pieces
split_maxsplit1(s) ==
    LET i == Scan(s, 1, FALSE)
        j == Scan(s, i, TRUE)
        k == Scan(s, j, FALSE)
    IN  IF i > Len(s) THEN <<>>
        ELSE IF k > Len(s) THEN <<SubSeq(s, i, j - 1)>>
        ELSE <<SubSeq(s, i, j - 1), SubSeq(s, k, Len(s))>>

\* parse_args(s): (key, args_text)
parse_args(s) ==
    LET splitted == split_maxsplit1(s)
    IN  IF Len(splitted) >= 2 THEN <<splitted[1], splitted[2]>>
        ELSE IF Len(splitted) = 1 THEN <<splitted[1], <<>>>>
        ELSE <<<<>>, <<>>>>

\* str.rjust(width): padded with spaces on the left, never truncated
rjust(s, width) ==
    IF Len(s) >= width THEN s ELSE [i \in 1..(width - Len(s)) |-> " "] \o s

\* sep.join(strs)
RECURSIVE join(_, _)
join(sep, strs) ==
    IF strs = <<>> THEN <<>>
    ELSE IF Len(strs) = 1 THEN strs[1]
    ELSE strs[1] \o sep \o join(sep, Tail(strs))

max(a, b) == IF a >= b THEN a ELSE b

----------------------------------------------------------------------------
(* dict: an insertion-ordered mapping, a sequence of [k, v] items with distinct k *)

DictHas(d, key) == \E i \in 1..Len(d) : d[i].k = key

DictIndex(d, key) == CHOOSE i \in 1..Len(d) : d[i].k = key

\* d[key] = value: a present key keeps its position and takes the new value, a new key goes last
DictSet(d, key, value) ==
    IF DictHas(d, key)
    THEN [d EXCEPT ![DictIndex(d, key)] = [k |-> key, v |-> value]]
    ELSE Append(d, [k |-> key, v |-> value])

DictKeys(d) == [i \in 1..Len(d) |-> d[i].k]

DictValues(d) == [i \in 1..Len(d) |-> d[i].v]

----------------------------------------------------------------------------
(* BotCommand and CommandDispatcher *)

\* subcommands=None
NoDispatcher == "None"

\* what CommandDispatcher.get returns for a key that is not registered (None)
NoCommand == [none |-> TRUE]

\* CommandDispatcher.__init__
CommandDispatcher == [_commands |-> <<>>, command_width |-> 0, argspec_width |-> 0]

\* CommandDispatcher.keys
keys(self) == DictKeys(self._commands)

\* BotCommand.__init__ storing the argspec argument as given, never deriving it
BotCommand_keeps_argspec(func, description, argspec, key, subcommands) ==
    [func |-> func,
     description |-> description,
     key |-> key,
     subcommands |-> subcommands,
     argspec |-> argspec]

\* BotCommand.__init__; a CommandDispatcher object is always truthy, so
\* "if subcommands" is "subcommands is not None"
BotCommand(func, description, argspec, key, subcommands) ==
    [func |-> func,
     description |-> description,
     key |-> key,
     subcommands |-> subcommands,
     argspec |-> IF subcommands # NoDispatcher /\ ~Truthy(argspec)
                 THEN join(<<"|">>, keys(dispatchers[subcommands]))
                 ELSE argspec]

\* register_command without the "if key in self._commands" check
register_command_overwrites(self, key, func, argspec, description, subcommands) ==
    [raised |-> "",
     self |-> [_commands |-> DictSet(self._commands, key,
                                     BotCommand(func, description, argspec, key, subcommands)),
               command_width |-> IF Len(key) > self.command_width
                                 THEN Len(key) ELSE self.command_width,
               argspec_width |-> IF Len(argspec) > self.argspec_width
                                 THEN Len(argspec) ELSE self.argspec_width]]

\* CommandDispatcher.register_command: the dispatcher afterwards, and what was raised
register_command(self, key, func, argspec, description, subcommands) ==
    IF DictHas(self._commands, key)
    THEN [raised |-> "SlackError", self |-> self]
    ELSE [raised |-> "",
          self |-> [_commands |-> DictSet(self._commands, key,
                                          BotCommand(func, description, argspec, key, subcommands)),
                    command_width |-> IF Len(key) > self.command_width
                                      THEN Len(key) ELSE self.command_width,
                    argspec_width |-> IF Len(argspec) > self.argspec_width
                                      THEN Len(argspec) ELSE self.argspec_width]]

\* CommandDispatcher.has
has(self, key) == DictHas(self._commands, key)

\* CommandDispatcher.get: dict.get, None for a missing key
get(self, key) ==
    IF DictHas(self._commands, key)
    THEN self._commands[DictIndex(self._commands, key)].v
    ELSE NoCommand

\* '{} {} {}'.format(a, b, c)
format3(a, b, c) == a \o <<" ">> \o b \o <<" ">> \o c

\* CommandDispatcher.help listing the commands newest first
help_texts_newest_first(self, parent_command) ==
    LET prefix == IF parent_command # NoCommand THEN parent_command.key \o <<" ">> ELSE <<>>
        argspec_width == IF parent_command # NoCommand
                         THEN max(Len(parent_command.argspec), self.argspec_width)
                         ELSE self.argspec_width
        command_width == IF parent_command # NoCommand
                         THEN Len(prefix) + self.command_width
                         ELSE self.command_width
        header == IF parent_command # NoCommand
                  THEN <<format3(rjust(parent_command.key, command_width),
                                 rjust(parent_command.argspec, argspec_width),
                                 parent_command.description)>>
                  ELSE <<>>
        values == DictValues(self._commands)
    IN  header \o [i \in 1..Len(values) |->
                      format3(rjust(prefix \o values[Len(values) + 1 - i].key, command_width),
                              rjust(values[Len(values) + 1 - i].argspec, argspec_width),
                              values[Len(values) + 1 - i].description)]

\* the lines CommandDispatcher.help builds (texts), before the join;
\* parent_command is a BotCommand or NoCommand, and a BotCommand is always truthy
help_texts(self, parent_command) ==
    LET prefix == IF parent_command # NoCommand THEN parent_command.key \o <<" ">> ELSE <<>>
        argspec_width == IF parent_command # NoCommand
                         THEN max(Len(parent_command.argspec), self.argspec_width)
                         ELSE self.argspec_width
        command_width == IF parent_command # NoCommand
                         THEN Len(prefix) + self.command_width
                         ELSE self.command_width
        header == IF parent_command # NoCommand
                  THEN <<format3(rjust(parent_command.key, command_width),
                                 rjust(parent_command.argspec, argspec_width),
                                 parent_command.description)>>
                  ELSE <<>>
        values == DictValues(self._commands)
    IN  header \o [i \in 1..Len(values) |->
                      format3(rjust(prefix \o values[i].key, command_width),
                              rjust(values[i].argspec, argspec_width),
                              values[i].description)]

\* CommandDispatcher.help
help(self, parent_command) == join(<<"\n">>, help_texts(self, parent_command))

\* Help._help_text
_help_text(command) == format3(command.key, command.argspec, command.description)

\* the format of Help.__call__'s return: the text between two triple-backtick markers
fenced(help_text) ==
    <<Backtick, Backtick, Backtick>> \o help_text \o <<Backtick, Backtick, Backtick>>

\* Help.__call__ with nothing rendered when no command matches
Help_call_no_fallback(text) ==
    LET command == get(dispatchers["bot"], text)
    IN  fenced(IF command # NoCommand
               THEN IF command.subcommands # NoDispatcher
                    THEN help(dispatchers[command.subcommands], command)
                    ELSE _help_text(command)
               ELSE <<>>)

\* Help.__call__ calling command.subcommands.help() without the parent command
Help_call_unscoped(text) ==
    LET command == get(dispatchers["bot"], text)
    IN  fenced(IF command # NoCommand
               THEN IF command.subcommands # NoDispatcher
                    THEN help(dispatchers[command.subcommands], NoCommand)
                    ELSE _help_text(command)
               ELSE help(dispatchers["bot"], NoCommand))

\* Help.__call__ of the Help object built on the bot (self.commands = bot.commands)
Help_call(text) ==
    LET command == get(dispatchers["bot"], text)
    IN  fenced(IF command # NoCommand
               THEN IF command.subcommands # NoDispatcher
                    THEN help(dispatchers[command.subcommands], command)
                    ELSE _help_text(command)
               ELSE help(dispatchers["bot"], NoCommand))

----------------------------------------------------------------------------
(* Handlers: the func of a BotCommand, a callable from str to optional str *)

\* a call's outcome: the value returned, whether it raised instead, and the
\* handler invocations it made, in order
Returned(value, invoked) == [raised |-> FALSE, value |-> value, calls |-> invoked]

Raised(invoked) == [raised |-> TRUE, value |-> None, calls |-> invoked]

\* the characters of the model's strings: printable ASCII, the whitespace of str.split,
\* Latin-1, and I with dot above, dotless i, the combining dot above, the Cyrillic
\* letters Zhe and zhe, the Arabic-Indic digit three, the Roman numerals eight and
\* small eight and the CJK character U+4E2D. A character that has no literal is
\* written as its code point.
Chars ==
    {" ", "!", "\"", "#", "$", "%", "&", "'", "(", ")", "*", "+", ",", "-", ".", "/", "0",
     "1", "2", "3", "4", "5", "6", "7", "8", "9", ":", ";", "<", "=", ">", "?", "@", "A",
     "B", "C", "D", "E", "F", "G", "H", "I", "J", "K", "L", "M", "N", "O", "P", "Q", "R",
     "S", "T", "U", "V", "W", "X", "Y", "Z", "[", "\\", "]", "^", "_", "BACKTICK", "a",
     "b", "c", "d", "e", "f", "g", "h", "i", "j", "k", "l", "m", "n", "o", "p", "q", "r",
     "s", "t", "u", "v", "w", "x", "y", "z", "{", "|", "}", "~", "\t", "\n", "U+000B",
     "\f", "\r", "U+001C", "U+001D", "U+001E", "U+001F", "U+0085", "U+00A0", "U+1680",
     "U+2000", "U+2001", "U+2002", "U+2003", "U+2004", "U+2005", "U+2006", "U+2007",
     "U+2008", "U+2009", "U+200A", "U+2028", "U+2029", "U+202F", "U+205F", "U+3000",
     "U+00A1", "U+00A2", "U+00A3", "U+00A4", "U+00A5", "U+00A6", "U+00A7", "U+00A8",
     "U+00A9", "U+00AA", "U+00AB", "U+00AC", "U+00AD", "U+00AE", "U+00AF", "U+00B0",
     "U+00B1", "U+00B2", "U+00B3", "U+00B4", "U+00B5", "U+00B6", "U+00B7", "U+00B8",
     "U+00B9", "U+00BA", "U+00BB", "U+00BC", "U+00BD", "U+00BE", "U+00BF", "U+00C0",
     "U+00C1", "U+00C2", "U+00C3", "U+00C4", "U+00C5", "U+00C6", "U+00C7", "U+00C8",
     "U+00C9", "U+00CA", "U+00CB", "U+00CC", "U+00CD", "U+00CE", "U+00CF", "U+00D0",
     "U+00D1", "U+00D2", "U+00D3", "U+00D4", "U+00D5", "U+00D6", "U+00D7", "U+00D8",
     "U+00D9", "U+00DA", "U+00DB", "U+00DC", "U+00DD", "U+00DE", "U+00DF", "U+00E0",
     "U+00E1", "U+00E2", "U+00E3", "U+00E4", "U+00E5", "U+00E6", "U+00E7", "U+00E8",
     "U+00E9", "U+00EA", "U+00EB", "U+00EC", "U+00ED", "U+00EE", "U+00EF", "U+00F0",
     "U+00F1", "U+00F2", "U+00F3", "U+00F4", "U+00F5", "U+00F6", "U+00F7", "U+00F8",
     "U+00F9", "U+00FA", "U+00FB", "U+00FC", "U+00FD", "U+00FE", "U+00FF", "U+0130",
     "U+0131", "U+0307", "U+0416", "U+0436", "U+0663", "U+2167", "U+2177", "U+4E2D"}

\* str.lower character by character: each character of Chars that lower() changes,
\* with what it becomes (U+0130 becomes two characters)
lower_table ==
    {<<"A", <<"a">>>>, <<"B", <<"b">>>>, <<"C", <<"c">>>>, <<"D", <<"d">>>>,
     <<"E", <<"e">>>>, <<"F", <<"f">>>>, <<"G", <<"g">>>>, <<"H", <<"h">>>>,
     <<"I", <<"i">>>>, <<"J", <<"j">>>>, <<"K", <<"k">>>>, <<"L", <<"l">>>>,
     <<"M", <<"m">>>>, <<"N", <<"n">>>>, <<"O", <<"o">>>>, <<"P", <<"p">>>>,
     <<"Q", <<"q">>>>, <<"R", <<"r">>>>, <<"S", <<"s">>>>, <<"T", <<"t">>>>,
     <<"U", <<"u">>>>, <<"V", <<"v">>>>, <<"W", <<"w">>>>, <<"X", <<"x">>>>,
     <<"Y", <<"y">>>>, <<"Z", <<"z">>>>, <<"U+00C0", <<"U+00E0">>>>,
     <<"U+00C1", <<"U+00E1">>>>, <<"U+00C2", <<"U+00E2">>>>, <<"U+00C3", <<"U+00E3">>>>,
     <<"U+00C4", <<"U+00E4">>>>, <<"U+00C5", <<"U+00E5">>>>, <<"U+00C6", <<"U+00E6">>>>,
     <<"U+00C7", <<"U+00E7">>>>, <<"U+00C8", <<"U+00E8">>>>, <<"U+00C9", <<"U+00E9">>>>,
     <<"U+00CA", <<"U+00EA">>>>, <<"U+00CB", <<"U+00EB">>>>, <<"U+00CC", <<"U+00EC">>>>,
     <<"U+00CD", <<"U+00ED">>>>, <<"U+00CE", <<"U+00EE">>>>, <<"U+00CF", <<"U+00EF">>>>,
     <<"U+00D0", <<"U+00F0">>>>, <<"U+00D1", <<"U+00F1">>>>, <<"U+00D2", <<"U+00F2">>>>,
     <<"U+00D3", <<"U+00F3">>>>, <<"U+00D4", <<"U+00F4">>>>, <<"U+00D5", <<"U+00F5">>>>,
     <<"U+00D6", <<"U+00F6">>>>, <<"U+00D8", <<"U+00F8">>>>, <<"U+00D9", <<"U+00F9">>>>,
     <<"U+00DA", <<"U+00FA">>>>, <<"U+00DB", <<"U+00FB">>>>, <<"U+00DC", <<"U+00FC">>>>,
     <<"U+00DD", <<"U+00FD">>>>, <<"U+00DE", <<"U+00FE">>>>,
     <<"U+0130", <<"i", "U+0307">>>>, <<"U+0416", <<"U+0436">>>>,
     <<"U+2167", <<"U+2177">>>>}

\* c.lower() for one character
lower_char(c) ==
    IF \E p \in lower_table : p[1] = c
    THEN (CHOOSE p \in lower_table : p[1] = c)[2]
    ELSE <<c>>

\* str.lower: character by character for the characters of Chars (only the Greek
\* capital sigma, which is not among them, depends on its neighbours)
RECURSIVE lower(_)
lower(s) == IF s = <<>> THEN <<>> ELSE lower_char(Head(s)) \o lower(Tail(s))

\* s.split(): the words of s, separated by runs of whitespace
RECURSIVE split(_)
split(s) ==
    LET i == Scan(s, 1, FALSE)
        j == Scan(s, i, TRUE)
    IN  IF i > Len(s) THEN <<>>
        ELSE <<SubSeq(s, i, j - 1)>> \o split(SubSeq(s, j, Len(s)))

\* word in k, for strings
contains(word, k) ==
    \E i \in 0..(Len(k) - Len(word)) : SubSeq(k, i + 1, i + Len(word)) = word

\* the characters of Chars that the pattern NON_WORD, [\d\W]+, does not match: the
\* word characters (Unicode letters and numerals, '_') that are no decimal digits
word_chars ==
    {"A", "B", "C", "D", "E", "F", "G", "H", "I", "J", "K", "L", "M", "N", "O", "P", "Q",
     "R", "S", "T", "U", "V", "W", "X", "Y", "Z", "_", "a", "b", "c", "d", "e", "f", "g",
     "h", "i", "j", "k", "l", "m", "n", "o", "p", "q", "r", "s", "t", "u", "v", "w", "x",
     "y", "z", "U+00AA", "U+00B2", "U+00B3", "U+00B5", "U+00B9", "U+00BA", "U+00BC",
     "U+00BD", "U+00BE", "U+00C0", "U+00C1", "U+00C2", "U+00C3", "U+00C4", "U+00C5",
     "U+00C6", "U+00C7", "U+00C8", "U+00C9", "U+00CA", "U+00CB", "U+00CC", "U+00CD",
     "U+00CE", "U+00CF", "U+00D0", "U+00D1", "U+00D2", "U+00D3", "U+00D4", "U+00D5",
     "U+00D6", "U+00D8", "U+00D9", "U+00DA", "U+00DB", "U+00DC", "U+00DD", "U+00DE",
     "U+00DF", "U+00E0", "U+00E1", "U+00E2", "U+00E3", "U+00E4", "U+00E5", "U+00E6",
     "U+00E7", "U+00E8", "U+00E9", "U+00EA", "U+00EB", "U+00EC", "U+00ED", "U+00EE",
     "U+00EF", "U+00F0", "U+00F1", "U+00F2", "U+00F3", "U+00F4", "U+00F5", "U+00F6",
     "U+00F8", "U+00F9", "U+00FA", "U+00FB", "U+00FC", "U+00FD", "U+00FE", "U+00FF",
     "U+0130", "U+0131", "U+0416", "U+0436", "U+2167", "U+2177", "U+4E2D"}

\* a character the pattern NON_WORD matches, which NON_WORD.sub('', ...) removes
NON_WORD(c) == c \notin word_chars

\* parse_jobs: [{name, url}, ...] => {key: JenkinsJob}, a later job of the same key
\* taking the place of the earlier one
RECURSIVE parse_jobs_into(_, _)
parse_jobs_into(d, job_list) ==
    IF job_list = <<>> THEN d
    ELSE LET job == Head(job_list)
             key == SelectSeq(lower(job.name), LAMBDA c : ~NON_WORD(c))
         IN  parse_jobs_into(DictSet(d, key, [name |-> job.name, url |-> job.url]),
                             Tail(job_list))

parse_jobs(job_list) == parse_jobs_into(<<>>, job_list)

\* what find_job returns when no job is known (None)
NoJob == [none |-> TRUE]

\* find_job's score of the job with key k: the number of words found in k
score(words, k) == Cardinality({w \in 1..Len(words) : contains(words[w], k)})

\* l[0] of find_job: the sort by score is stable and descending, so the first job
\* with the best score comes first, whatever that score is
top_match(words) ==
    CHOOSE n \in 1..Len(jobs) :
        /\ \A m \in 1..Len(jobs) : score(words, jobs[m].k) <= score(words, jobs[n].k)
        /\ \A m \in 1..(n - 1) : score(words, jobs[m].k) < score(words, jobs[n].k)

\* Jenkins.find_job
find_job(s) == IF jobs = <<>> THEN NoJob ELSE jobs[top_match(split(lower(s)))].v

\* 'Found {} ({})'.format(job.name, job.url) if job
Found(job) ==
    IF job # NoJob
    THEN <<"F", "o", "u", "n", "d", " ">> \o job.name \o <<" ", "(">> \o job.url \o <<")">>
    ELSE None

\* Jenkins.info
info(text) == IF Truthy(text) THEN Found(find_job(text)) ELSE None

RECURSIVE BotCommand_call(_, _)

\* BotCommand.__call__ with Jenkins.process handing its whole input to the subcommand
BotCommand_call_sub_gets_all(command, input_text) ==
    LET me == <<[func |-> command.func, input_text |-> input_text]>>
    IN  CASE command.func = "pong" -> Returned(<<"p", "o", "n", "g">>, me)
          [] command.func = "echo" -> Returned(input_text, me)
          [] command.func = "none" -> Returned(None, me)
          [] command.func = "raise" -> Raised(me)
          [] command.func = "Help" -> Returned(Help_call(input_text), me)
          [] command.func = "Jenkins.info" -> Returned(info(input_text), me)
          [] command.func = "Jenkins.help" -> Raised(me)
          [] command.func = "Jenkins.process" ->
                LET parsed == parse_args(input_text)
                    subcommand == get(dispatchers["jenkins"], parsed[1])
                    inner == BotCommand_call(subcommand, input_text)
                IN  IF subcommand # NoCommand
                    THEN [inner EXCEPT !.calls = me \o inner.calls]
                    ELSE Returned(None, me)

\* BotCommand.__call__: self.func(input_text), for each func the model registers.
\*   "pong" returns 'pong' on any input        "echo" returns its input
\*   "none" returns None                       "raise" raises an exception
\*   "Help" is Help.__call__                   "Jenkins.process" dispatches into Jenkins.commands
\*   "Jenkins.info" is Jenkins.info            "Jenkins.help" raises (help_message is not defined)
BotCommand_call(command, input_text) ==
    LET me == <<[func |-> command.func, input_text |-> input_text]>>
    IN  CASE command.func = "pong" -> Returned(<<"p", "o", "n", "g">>, me)
          [] command.func = "echo" -> Returned(input_text, me)
          [] command.func = "none" -> Returned(None, me)
          [] command.func = "raise" -> Raised(me)
          [] command.func = "Help" -> Returned(Help_call(input_text), me)
          [] command.func = "Jenkins.info" -> Returned(info(input_text), me)
          [] command.func = "Jenkins.help" -> Raised(me)
          [] command.func = "Jenkins.process" ->
                LET parsed == parse_args(input_text)
                    subcommand == get(dispatchers["jenkins"], parsed[1])
                    inner == BotCommand_call(subcommand, parsed[2])
                IN  IF subcommand # NoCommand
                    THEN [inner EXCEPT !.calls = me \o inner.calls]
                    ELSE Returned(None, me)

----------------------------------------------------------------------------
(* SlackBot *)

\* response_id += 1 without the increment
next_response_id_kept(rid) == rid

\* response_id += 1, after a send
next_response_id(rid) == rid + 1

\* what _calculate_response returns when it falls off its end (None)
NoResponse == [none |-> TRUE]

\* str.startswith('D')
startswithD(channel) == Len(channel) >= 1 /\ channel[1] = "D"

\* _calculate_prefix without the test for a direct channel
_calculate_prefix_everywhere(msg) ==
    LET prefix == IF msg.user \in DOMAIN user_names THEN user_names[msg.user] ELSE <<>>
    IN  IF Truthy(prefix) THEN prefix \o <<",", " ">> ELSE prefix

\* _calculate_prefix without "if prefix": the separator whatever the name is
_calculate_prefix_always_separator(msg) ==
    IF startswithD(msg.channel) THEN <<>>
    ELSE LET prefix == IF msg.user \in DOMAIN user_names THEN user_names[msg.user] ELSE <<>>
         IN  prefix \o <<",", " ">>

\* SlackBot._calculate_prefix
_calculate_prefix(msg) ==
    IF startswithD(msg.channel) THEN <<>>
    ELSE LET prefix == IF msg.user \in DOMAIN user_names THEN user_names[msg.user] ELSE <<>>
         IN  IF Truthy(prefix) THEN prefix \o <<",", " ">> ELSE prefix

\* _calculate_response without "if response_text": a response whatever the handler returned
_calculate_response_unconditional(msg, rid) ==
    LET parsed == parse_args(msg.text)
        command == get(dispatchers["bot"], parsed[1])
        result == BotCommand_call(command, parsed[2])
    IN  IF command = NoCommand THEN [raised |-> FALSE, response |-> NoResponse, calls |-> <<>>]
        ELSE IF result.raised THEN [raised |-> TRUE, response |-> NoResponse, calls |-> result.calls]
        ELSE [raised |-> FALSE,
              response |-> [id |-> rid, type |-> "message", channel |-> msg.channel,
                            text |-> _calculate_prefix(msg)
                                        \o (IF result.value = None THEN <<>> ELSE result.value)],
              calls |-> result.calls]

\* _calculate_response calling command(input_text) instead of command(args_text)
_calculate_response_whole_text(msg, rid) ==
    LET parsed == parse_args(msg.text)
        command == get(dispatchers["bot"], parsed[1])
        result == BotCommand_call(command, msg.text)
    IN  IF command = NoCommand THEN [raised |-> FALSE, response |-> NoResponse, calls |-> <<>>]
        ELSE IF result.raised THEN [raised |-> TRUE, response |-> NoResponse, calls |-> result.calls]
        ELSE IF Truthy(result.value)
        THEN [raised |-> FALSE,
              response |-> [id |-> rid, type |-> "message", channel |-> msg.channel,
                            text |-> _calculate_prefix(msg) \o result.value],
              calls |-> result.calls]
        ELSE [raised |-> FALSE, response |-> NoResponse, calls |-> result.calls]

\* SlackBot._calculate_response: the response (or None), whether the handler
\* raised, and the handler invocations made
_calculate_response(msg, rid) ==
    LET parsed == parse_args(msg.text)
        command == get(dispatchers["bot"], parsed[1])
        result == BotCommand_call(command, parsed[2])
    IN  IF command = NoCommand THEN [raised |-> FALSE, response |-> NoResponse, calls |-> <<>>]
        ELSE IF result.raised THEN [raised |-> TRUE, response |-> NoResponse, calls |-> result.calls]
        ELSE IF Truthy(result.value)
        THEN [raised |-> FALSE,
              response |-> [id |-> rid, type |-> "message", channel |-> msg.channel,
                            text |-> _calculate_prefix(msg) \o result.value],
              calls |-> result.calls]
        ELSE [raised |-> FALSE, response |-> NoResponse, calls |-> result.calls]

----------------------------------------------------------------------------
(* The session: a bot is set up, start() logs in and loops over ws.recv(),   *)
(* while other callbacks of the event loop run at its suspensions           *)

NoOp == [name |-> "none"]

\* SlackBot.bot_id before the login (None); the ids of users are strings
NoId == "None"

\* register_command call k of the setup code: Jenkins.__init__ registers info and
\* help on its own dispatcher, then the commands of the bot are registered, one for
\* each kind of handler and the Jenkins dispatcher as the subcommands of jk.
SetupScript ==
    <<[self |-> "jenkins", key |-> <<"i", "n", "f", "o">>, func |-> "Jenkins.info",
       argspec |-> <<"<", "p", "r", "o", "j", "e", "c", "t", " ", "n", "a", "m", "e", ">">>,
       description |-> <<"d", "i", "s", "p", "l", "a", "y", "s", " ", "p", "r", "o", "j",
                        "e", "c", "t", " ", "i", "n", "f", "o", "r", "m", "a", "t", "i", "o", "n">>,
       subcommands |-> NoDispatcher],
      [self |-> "jenkins", key |-> <<"h", "e", "l", "p">>, func |-> "Jenkins.help",
       argspec |-> <<>>,
       description |-> <<"d", "i", "s", "p", "l", "a", "y", "s", " ", "t", "h", "i", "s",
                        " ", "m", "e", "s", "s", "a", "g", "e", ".">>,
       subcommands |-> NoDispatcher],
      [self |-> "bot", key |-> <<"p">>, func |-> "pong",
       argspec |-> <<>>, description |-> <<"P">>, subcommands |-> NoDispatcher],
      [self |-> "bot", key |-> <<"e">>, func |-> "echo",
       argspec |-> <<"<", "t", ">">>, description |-> <<"E">>, subcommands |-> NoDispatcher],
      [self |-> "bot", key |-> <<"n">>, func |-> "none",
       argspec |-> <<>>, description |-> <<"N">>, subcommands |-> NoDispatcher],
      [self |-> "bot", key |-> <<"b", "o", "o", "m">>, func |-> "raise",
       argspec |-> <<>>, description |-> <<"B">>, subcommands |-> NoDispatcher],
      [self |-> "bot", key |-> <<"h", "e", "l", "p">>, func |-> "Help",
       argspec |-> <<"[", "c", "]">>, description |-> <<"H">>, subcommands |-> NoDispatcher],
      [self |-> "bot", key |-> <<"j", "k">>, func |-> "Jenkins.process",
       argspec |-> <<>>, description |-> <<"J">>, subcommands |-> "jenkins"]>>

Registered == Len(dispatchers["bot"]._commands) + Len(dispatchers["jenkins"]._commands)

Init ==
    /\ dispatchers = [d \in {"bot", "jenkins"} |-> CommandDispatcher]
    /\ op = NoOp
    /\ pc = "setup"
    /\ bot_id = NoId
    /\ user_names = <<>>
    /\ channel_names = <<>>
    /\ response_id = 0
    /\ sent = <<>>
    /\ calls = <<>>
    /\ nrecv = 0
    /\ jobs = <<>>

\* one register_command call on dispatcher d: a synchronous call, which the code
\* accepts before start(), while start() is suspended and after it has ended
Register(d, key, func, argspec, description, subcommands) ==
    LET r == register_command(dispatchers[d], key, func, argspec, description, subcommands)
    IN  /\ dispatchers' = [dispatchers EXCEPT ![d] = r.self]
        /\ op' = [name |-> "register_command", self |-> d, key |-> key, func |-> func,
                  argspec |-> argspec, description |-> description,
                  subcommands |-> subcommands, raised |-> r.raised]
        /\ UNCHANGED <<pc, bot_id, user_names, channel_names, response_id, sent, calls,
                       nrecv, jobs>>

\* the next register_command call of the setup code
Setup ==
    /\ Registered < Len(SetupScript)
    /\ LET c == SetupScript[Registered + 1]
       IN  Register(c.self, c.key, c.func, c.argspec, c.description, c.subcommands)

\* a register_command call made by another callback of the event loop once start()
\* has been called: a command late whose handler returns 'pong'
RegisterLate ==
    /\ pc # "setup"
    /\ Register("bot", <<"l", "a", "t", "e">>, "pong", <<>>, <<"L">>, NoDispatcher)

\* what the Jenkins server answers to fetch_all_jobs: d['jobs']
JobAnswers ==
    {<<[name |-> <<"M", "y">>, url |-> <<"u">>]>>,
     <<[name |-> <<"a", "b">>, url |-> <<"x">>],
       [name |-> <<"A", "U+00C9", "-", "2", "U+0663", "b">>, url |-> <<"y">>]>>}

\* Jenkins.reload_jobs (and Jenkins.init, which only calls it), resumed with the
\* server's answer: self.jobs is replaced. The coroutine is run by the event loop
\* whenever nothing else runs: before start(), at any suspension of start(), or after.
ReloadJobs(job_list) ==
    /\ jobs' = parse_jobs(job_list)
    /\ op' = [name |-> "reload_jobs", job_list |-> job_list]
    /\ UNCHANGED <<dispatchers, pc, bot_id, user_names, channel_names, response_id, sent,
                   calls, nrecv>>

\* d['url'] of an answer of rtm.start that has no such key
Missing == "KeyError"

\* what rtm.start answers: d['ok'], d['self'], d['users'] and d['bots'], d['channels']
\* and d['groups'], d['url']
LoginData ==
    {[ok |-> ok, self |-> "B",
      users |-> [u \in {"B", "U1"} |-> IF u = "B" THEN <<"b", "o", "t">> ELSE <<"a", "l">>],
      channels |-> <<[k |-> <<"C", "1">>, v |-> <<"g", "e", "n">>]>>,
      url |-> url] : ok \in BOOLEAN, url \in {"ws://x", Missing}}

\* start() is called and runs up to its first suspension, in aiohttp.request
Start ==
    /\ pc = "setup"
    /\ Registered = Len(SetupScript)
    /\ pc' = "http"
    /\ op' = [name |-> "start"]
    /\ UNCHANGED <<dispatchers, bot_id, user_names, channel_names, response_id, sent,
                   calls, nrecv, jobs>>

\* _fetch: aiohttp.request returns the response and _fetch suspends in resp.json(),
\* or the request raises and start() ends
FetchResponse(ok) ==
    /\ pc = "http"
    /\ pc' = IF ok THEN "json" ELSE "crashed"
    /\ op' = [name |-> "_fetch", raised |-> ~ok]
    /\ UNCHANGED <<dispatchers, bot_id, user_names, channel_names, response_id, sent,
                   calls, nrecv, jobs>>

\* resp.json() returns d: start() raises SlackError if d['ok'] is false; else
\* _init_login_data stores the login data, d['url'] is read (KeyError if there is
\* none) and start() suspends in websockets.connect
FetchJson(d) ==
    /\ pc = "json"
    /\ op' = [name |-> "rtm.start", ok |-> d.ok, url |-> d.url]
    /\ IF d.ok
       THEN /\ bot_id' = d.self
            /\ user_names' = d.users
            /\ channel_names' = d.channels
            /\ pc' = IF d.url = Missing THEN "crashed" ELSE "connect"
       ELSE /\ pc' = "crashed"
            /\ UNCHANGED <<bot_id, user_names, channel_names>>
    /\ UNCHANGED <<dispatchers, response_id, sent, calls, nrecv, jobs>>

\* websockets.connect returns the socket, response_id = 1 and the loop suspends in
\* its first ws.recv; or connect raises and start() ends
Connect(ok) ==
    /\ pc = "connect"
    /\ op' = [name |-> "connect", raised |-> ~ok]
    /\ IF ok
       THEN pc' = "running" /\ response_id' = 1
       ELSE pc' = "crashed" /\ UNCHANGED response_id
    /\ UNCHANGED <<dispatchers, bot_id, user_names, channel_names, sent, calls, nrecv, jobs>>

Users == {"B", "U1", "U2"}

Channels == {<<"C", "1">>, <<"D", "1">>}

\* the text of the messages received
Texts ==
    {<<>>,
     <<"z", "z">>,
     <<"p", " ", "x">>,
     <<"p", "\r", "x">>,
     <<"e">>,
     <<"n", " ", "x">>,
     <<"b", "o", "o", "m">>,
     <<"h", "e", "l", "p", " ", "j", "k">>,
     <<"j", "k", " ", "i", "n", "f", "o", " ", "a">>,
     <<"j", "k", " ", "i", "n", "f", "o", "\r", "a">>,
     <<"j", "k", " ", "i", "n", "f", "o">>,
     <<"j", "k", " ", "z", "z">>,
     <<"j", "k", " ", "i", "n", "f", "o", " ", "U+00C9">>,
     <<"l", "a", "t", "e", " ", "x">>}

Message(channel, user, text) ==
    [type |-> "message", channel |-> channel, user |-> user, text |-> text, name |-> <<>>]

\* the events ws.recv delivers: messages of every text from a known user in a known
\* channel, a ping from every user in every channel, joins of a new channel and of a
\* known channel under a new name, and an event of another type
Events ==
    {Message(<<"C", "1">>, "U1", text) : text \in Texts}
    \cup {Message(c, u, <<"p", " ", "x">>) : c \in Channels, u \in Users}
    \cup {[type |-> ty, channel |-> c, user |-> "", text |-> <<>>, name |-> <<"d", "e", "v">>] :
            ty \in {"channel_joined", "group_joined"}, c \in {<<"G", "2">>, <<"C", "1">>}}
    \cup {[type |-> "hello", channel |-> <<>>, user |-> "", text |-> <<>>, name |-> <<>>]}

\* user_id != self.bot_id dropped: every user's messages are dispatched
from_anyone(user_id) == TRUE

\* user_id != self.bot_id
from_other_user(user_id) == user_id # bot_id

\* a socket that puts each response in front of the ones handed to it before
ws_send_in_front(socket, response) == <<response>> \o socket

\* ws.send(json.dumps(response)): the response is handed to the socket
ws_send(socket, response) == Append(socket, response)

\* _upsert_channel forgetting the channels known before
_upsert_channel_alone(msg) == <<[k |-> msg.channel, v |-> msg.name]>>

\* SlackBot._upsert_channel(msg['channel']), the channel's id and name being
\* msg.channel and msg.name here
_upsert_channel(msg) == DictSet(channel_names, msg.channel, msg.name)

\* the loop iteration with a CommandDispatcher.help that stores the widths it
\* computes for a parent command in the dispatcher
Recv_help_stores_widths(msg) ==
    /\ pc = "running"
    /\ nrecv < MaxEvents
    /\ nrecv' = nrecv + 1
    /\ UNCHANGED <<bot_id, user_names, response_id, jobs>>
    /\ LET parsed == parse_args(msg.text)
           asked == get(dispatchers["bot"], parsed[2])
       IN  IF /\ msg.type = "message" /\ from_other_user(msg.user)
              /\ parsed[1] = <<"h", "e", "l", "p">>
              /\ asked # NoCommand /\ asked.subcommands # NoDispatcher
           THEN dispatchers' =
                   [dispatchers EXCEPT
                       ![asked.subcommands].command_width = Len(asked.key) + 1 + @,
                       ![asked.subcommands].argspec_width = max(Len(asked.argspec), @)]
           ELSE dispatchers' = dispatchers
    /\ IF msg.type = "message"
       THEN IF from_other_user(msg.user)
            THEN LET r == _calculate_response(msg, response_id)
                 IN  /\ calls' = r.calls
                     /\ op' = [name |-> "recv", msg |-> msg, raised |-> r.raised]
                     /\ IF r.raised
                        THEN pc' = "crashed" /\ UNCHANGED sent
                        ELSE IF r.response # NoResponse
                        THEN pc' = "send" /\ sent' = ws_send(sent, r.response)
                        ELSE UNCHANGED <<pc, sent>>
                     /\ UNCHANGED channel_names
            ELSE /\ calls' = <<>>
                 /\ op' = [name |-> "recv", msg |-> msg, raised |-> FALSE]
                 /\ UNCHANGED <<pc, sent, channel_names>>
       ELSE /\ calls' = <<>>
            /\ op' = [name |-> "recv", msg |-> msg, raised |-> FALSE]
            /\ channel_names' = IF msg.type \in {"channel_joined", "group_joined"}
                                THEN _upsert_channel(msg)
                                ELSE channel_names
            /\ UNCHANGED <<pc, sent>>

\* one iteration of the while True loop of SlackBot.start, on the event msg that
\* ws.recv returns, up to the next suspension: in ws.send if there is a response
\* (handed to the socket, response_id not yet incremented), else in the next ws.recv;
\* a handler's exception ends start()
Recv(msg) ==
    /\ pc = "running"
    /\ nrecv < MaxEvents
    /\ nrecv' = nrecv + 1
    /\ UNCHANGED <<dispatchers, bot_id, user_names, response_id, jobs>>
    /\ IF msg.type = "message"
       THEN IF from_other_user(msg.user)
            THEN LET r == _calculate_response(msg, response_id)
                 IN  /\ calls' = r.calls
                     /\ op' = [name |-> "recv", msg |-> msg, raised |-> r.raised]
                     /\ IF r.raised
                        THEN pc' = "crashed" /\ UNCHANGED sent
                        ELSE IF r.response # NoResponse
                        THEN pc' = "send" /\ sent' = ws_send(sent, r.response)
                        ELSE UNCHANGED <<pc, sent>>
                     /\ UNCHANGED channel_names
            ELSE /\ calls' = <<>>
                 /\ op' = [name |-> "recv", msg |-> msg, raised |-> FALSE]
                 /\ UNCHANGED <<pc, sent, channel_names>>
       ELSE /\ calls' = <<>>
            /\ op' = [name |-> "recv", msg |-> msg, raised |-> FALSE]
            /\ channel_names' = IF msg.type \in {"channel_joined", "group_joined"}
                                THEN _upsert_channel(msg)
                                ELSE channel_names
            /\ UNCHANGED <<pc, sent>>

\* ws.send returns: response_id += 1 and the loop suspends in the next ws.recv; or
\* ws.send raises (the connection dropped) and start() ends, response_id as it was
Sent(ok) ==
    /\ pc = "send"
    /\ op' = [name |-> "send", raised |-> ~ok]
    /\ IF ok
       THEN pc' = "running" /\ response_id' = next_response_id(response_id)
       ELSE pc' = "crashed" /\ UNCHANGED response_id
    /\ UNCHANGED <<dispatchers, bot_id, user_names, channel_names, sent, calls, nrecv, jobs>>

\* how receiving fails: the connection is dropped (ws.recv raises) or a frame
\* is returned that json.loads cannot decode
TransportErrors == {"connection drop", "decode failure"}

\* the loop iteration in which ws.recv or json.loads raises: nothing in start()
\* catches the exception, which ends the loop and start()
RecvError(kind) ==
    /\ pc = "running"
    /\ nrecv < MaxEvents
    /\ nrecv' = IF kind = "decode failure" THEN nrecv + 1 ELSE nrecv
    /\ op' = [name |-> "transport_error", kind |-> kind]
    /\ pc' = "crashed"
    /\ calls' = <<>>
    /\ UNCHANGED <<dispatchers, bot_id, user_names, channel_names, response_id, sent, jobs>>

Next ==
    \/ Setup
    \/ RegisterLate
    \/ \E job_list \in JobAnswers : ReloadJobs(job_list)
    \/ Start
    \/ \E ok \in BOOLEAN : FetchResponse(ok)
    \/ \E d \in LoginData : FetchJson(d)
    \/ \E ok \in BOOLEAN : Connect(ok)
    \/ \E msg \in Events : Recv(msg)
    \/ \E ok \in BOOLEAN : Sent(ok)
    \/ \E kind \in TransportErrors : RecvError(kind)

Spec == Init /\ [][Next]_vars

----------------------------------------------------------------------------
(* Building registries: any register_command call on either dispatcher, and  *)
(* calls of the Help command on what has been registered so far             *)

\* the keys registered on each dispatcher
RegKeys(d) ==
    IF d = "bot" THEN {<<"p">>, <<"j", "k">>, <<"h", "e", "l", "p">>}
    ELSE {<<"i", "n", "f", "o">>, <<"h">>}

\* the explicit argspec arguments ('' is the default)
RegArgSpecs == {<<>>, <<"<", "n", ">">>}

\* the subcommands arguments (None is the default)
RegSubcommands(d) == IF d = "bot" THEN {NoDispatcher, "jenkins"} ELSE {NoDispatcher}

\* the handler and the description registered with a key
RegFunc(d, key) ==
    IF d = "jenkins" THEN "Jenkins.info"
    ELSE IF key = <<"p">> THEN "pong"
    ELSE IF key = <<"j", "k">> THEN "Jenkins.process"
    ELSE "Help"

RegDescription(key) == <<"d">> \o SubSeq(key, 1, 1)

RegisterAny ==
    \E d \in {"bot", "jenkins"} :
        \E key \in RegKeys(d), argspec \in RegArgSpecs, subcommands \in RegSubcommands(d) :
            /\ has(dispatchers[d], key) \/ Len(dispatchers[d]._commands) < MaxCommands
            /\ Register(d, key, RegFunc(d, key), argspec, RegDescription(key), subcommands)

\* what the Help command is asked about
HelpInputs == RegKeys("bot") \cup {<<>>, <<"z">>, <<"i", "n", "f", "o">>}

\* Help.__call__(text) on the bot's dispatcher
HelpCall(text) ==
    /\ pc = "setup"
    /\ op' = [name |-> "Help", text |-> text, value |-> Help_call(text)]
    /\ UNCHANGED <<dispatchers, pc, bot_id, user_names, channel_names, response_id, sent,
                   calls, nrecv, jobs>>

NextRegistry ==
    \/ RegisterAny
    \/ \E text \in HelpInputs : HelpCall(text)

SpecRegistry == Init /\ [][NextRegistry]_vars

----------------------------------------------------------------------------
(* The splitter alone: parse_args on every text of at most MaxLen characters *)

SplitAlphabet == {"a", "b", " ", "\t", "\r"}

SplitInputs == UNION {[1..n -> SplitAlphabet] : n \in 0..MaxLen}

ParseArgs(s) ==
    /\ pc = "setup"
    /\ op' = [name |-> "parse_args", s |-> s, value |-> parse_args(s)]
    /\ UNCHANGED <<dispatchers, pc, bot_id, user_names, channel_names, response_id, sent,
                   calls, nrecv, jobs>>

NextSplit == \E s \in SplitInputs : ParseArgs(s)

SpecSplit == Init /\ [][NextSplit]_vars

----------------------------------------------------------------------------
(* Vocabulary of the properties *)

Last(s) == s[Len(s)]

\* the command key and the remainder of a message
KeyOf(msg) == parse_args(msg.text)[1]

RestOf(msg) == parse_args(msg.text)[2]

\* the dispatch results of the data model, for a message handed to the bot's registry
NoMatch(msg) == ~has(dispatchers["bot"], KeyOf(msg))

HandlerOutcome(msg) == BotCommand_call(get(dispatchers["bot"], KeyOf(msg)), RestOf(msg))

Silent(msg) ==
    /\ ~NoMatch(msg)
    /\ ~HandlerOutcome(msg).raised
    /\ ~Truthy(HandlerOutcome(msg).value)

Reply(msg) ==
    /\ ~NoMatch(msg)
    /\ ~HandlerOutcome(msg).raised
    /\ Truthy(HandlerOutcome(msg).value)

\* the last operation was a loop iteration that received a chat message
ReceivedMessage == op.name = "recv" /\ op.msg.type = "message"

----------------------------------------------------------------------------
(* Properties of the session loop, under Spec *)

\* C1: a loop iteration on a message whose key is not registered (NoMatch) or whose
\* handler returned '' or None (Silent) sends nothing, leaves response_id as it was
\* and goes on to the next ws.recv with no send pending, and on NoMatch no handler is
\* invoked; whenever something is sent, it is one response, for a message whose
\* handler returned non-empty text (Reply); and once the loop runs response_id moves
\* only when the send of such a response returns.
C1_OnlyReplySends ==
    [][/\ (op'.name = "recv" /\ nrecv' = nrecv + 1 /\ op'.msg.type = "message"
             /\ (NoMatch(op'.msg) \/ Silent(op'.msg)))
          => (/\ sent' = sent
              /\ response_id' = response_id
              /\ pc' = "running"
              /\ NoMatch(op'.msg) => calls' = <<>>)
       /\ sent' # sent
          => (/\ op'.name = "recv" /\ op'.msg.type = "message"
              /\ Reply(op'.msg)
              /\ pc' = "send"
              /\ Len(sent') = Len(sent) + 1
              /\ SubSeq(sent', 1, Len(sent)) = sent)
       /\ (response_id' # response_id /\ op'.name # "connect")
          => (/\ op'.name = "send" /\ pc = "send"
              /\ Last(sent).id = response_id
              /\ response_id' = response_id + 1)
       /\ (pc' = "send" /\ pc # "send") => sent' # sent]_vars

\* a message whose handler returned nothing was processed after one reply had been sent
C1_Witness ==
    /\ ReceivedMessage
    /\ pc = "running"
    /\ op.msg.user # bot_id
    /\ Silent(op.msg)
    /\ calls # <<>>
    /\ Len(sent) = 1
    /\ response_id = 2

\* C2: after a loop iteration on a message not authored by the bot whose first token
\* is a registered key, that entry's handler was invoked exactly once, first, with the
\* remainder parse_args produced; and if the handler returned non-empty text, the
\* response just sent goes to the message's channel with the text prefix + that text
\* ('p x' from al in a channel, handled by a handler returning 'pong': 'al, pong').
C2_HandlerGetsRemainder ==
    (ReceivedMessage /\ op.msg.user # bot_id /\ ~NoMatch(op.msg)) =>
        LET entry == get(dispatchers["bot"], KeyOf(op.msg))
        IN  /\ calls # <<>>
            /\ calls[1] = [func |-> entry.func, input_text |-> RestOf(op.msg)]
            /\ Cardinality({i \in 1..Len(calls) : calls[i].func = entry.func}) = 1
            /\ Reply(op.msg) =>
                  /\ sent # <<>>
                  /\ Last(sent).channel = op.msg.channel
                  /\ Last(sent).text = _calculate_prefix(op.msg) \o HandlerOutcome(op.msg).value
            /\ (op.msg \in {Message(<<"C", "1">>, "U1", <<"p", " ", "x">>),
                            Message(<<"C", "1">>, "U1", <<"p", "\r", "x">>)}) =>
                  /\ calls = <<[func |-> "pong", input_text |-> <<"x">>]>>
                  /\ Last(sent).text = <<"a", "l", ",", " ", "p", "o", "n", "g">>

\* a second reply was sent, for a handler given a non-empty remainder, with a prefix
C2_Witness ==
    /\ ReceivedMessage
    /\ op.msg.user # bot_id
    /\ Reply(op.msg)
    /\ RestOf(op.msg) # <<>>
    /\ _calculate_prefix(op.msg) # <<>>
    /\ Len(sent) = 2

\* C4: the k-th response sent carries id k; while the loop waits for the next
\* event response_id is one more than the number of responses sent, and while it
\* waits for a send to return response_id is still the id of the response being
\* sent: it moves once per send that returned and never otherwise.
C4_ResponseIds ==
    /\ \A k \in 1..Len(sent) : sent[k].id = k
    /\ pc = "running" => response_id = Len(sent) + 1
    /\ pc = "send" => response_id = Len(sent)

\* two replies were sent and one event in between or after produced none
C4_Witness ==
    /\ Len(sent) = 2
    /\ nrecv = 3
    /\ sent[2].id = 2
    /\ pc = "running"
    /\ response_id = 3

\* C5: a loop iteration whose handler raised leaves the loop running (the failure
\* was caught), with nothing sent for that message.
C5_HandlerFailureKeepsLoop ==
    (op.name = "recv" /\ op.raised) => pc = "running"

----------------------------------------------------------------------------
(* Properties of the registry, under SpecRegistry *)

\* the largest number of a finite set of naturals, 0 for the empty set
MaxOf(S) == IF S = {} THEN 0 ELSE CHOOSE n \in S : \A m \in S : m <= n

\* C3: a register_command call for a key the dispatcher already holds raises
\* SlackError and leaves every dispatcher as it was (entries, order, widths, the
\* entry bound to the key); and in every state a dispatcher holds each key once.
C3_DuplicateRejected ==
    /\ [](\A d \in DOMAIN dispatchers :
            \A i, j \in 1..Len(dispatchers[d]._commands) :
                dispatchers[d]._commands[i].k = dispatchers[d]._commands[j].k => i = j)
    /\ [][(op'.name = "register_command" /\ has(dispatchers[op'.self], op'.key))
            => (op'.raised = "SlackError" /\ dispatchers' = dispatchers)]_vars

\* a duplicate registration with another argspec was refused on a dispatcher of two commands
C3_Witness ==
    /\ op.name = "register_command"
    /\ op.raised = "SlackError"
    /\ Len(dispatchers[op.self]._commands) = 2
    /\ get(dispatchers[op.self], op.key).argspec # op.argspec
    /\ get(dispatchers[op.self], op.key).subcommands # op.subcommands

\* C6: on every dispatcher command_width is the largest length of a registered key
\* and argspec_width the largest length of a stored argspec, 0 when it is empty.
C6_WidthsAreMaxima ==
    \A d \in DOMAIN dispatchers :
        LET values == DictValues(dispatchers[d]._commands)
        IN  /\ dispatchers[d].command_width
                  = MaxOf({Len(values[i].key) : i \in 1..Len(values)})
            /\ dispatchers[d].argspec_width
                  = MaxOf({Len(values[i].argspec) : i \in 1..Len(values)})

\* C7: after a successful register_command, the entry stores the '|'-join of the
\* sub-dispatcher's keys in insertion order when subcommands was given with no
\* argspec ('info|h' for keys info then h), and stores a non-empty argspec unchanged.
C7_DerivedArgspec ==
    (op.name = "register_command" /\ op.raised = "") =>
        LET stored == get(dispatchers[op.self], op.key).argspec
        IN  /\ (op.subcommands # NoDispatcher /\ op.argspec = <<>>) =>
                  /\ stored = join(<<"|">>, DictKeys(dispatchers[op.subcommands]._commands))
                  /\ DictKeys(dispatchers[op.subcommands]._commands)
                        = << <<"i", "n", "f", "o">>, <<"h">> >>
                     => stored = <<"i", "n", "f", "o", "|", "h">>
            /\ op.argspec # <<>> => stored = op.argspec

\* a command was registered with a sub-dispatcher of two keys and no argspec
C7_Witness ==
    /\ op.name = "register_command"
    /\ op.raised = ""
    /\ op.subcommands # NoDispatcher
    /\ op.argspec = <<>>
    /\ Len(dispatchers[op.subcommands]._commands) = 2

----------------------------------------------------------------------------
(* Properties of the splitter, under SpecSplit *)

NoWhitespace(s) == \A i \in 1..Len(s) : s[i] \notin Whitespace

AllWhitespace(s) == \A i \in 1..Len(s) : s[i] \in Whitespace

\* s is key, then a run of n whitespace characters, then rest, where the run is
\* the whole run (rest does not start with whitespace) and rest needs a run before it
SplitsAt(s, key, rest) ==
    /\ NoWhitespace(key)
    /\ \E n \in 0..Len(s) :
          /\ Len(s) = Len(key) + n + Len(rest)
          /\ SubSeq(s, 1, Len(key)) = key
          /\ AllWhitespace(SubSeq(s, Len(key) + 1, Len(key) + n))
          /\ SubSeq(s, Len(key) + n + 1, Len(s)) = rest
          /\ rest # <<>> => (n >= 1 /\ rest[1] \notin Whitespace)

\* s without its leading whitespace
lstripped(s) == SubSeq(s, Scan(s, 1, FALSE), Len(s))

\* C8 as stated: parse_args splits every text on its first run of whitespace: the
\* key is the text before that run and has no whitespace, the remainder is the
\* text after it, verbatim.
C8_SplitsOnFirstRun ==
    (op.name = "parse_args") => SplitsAt(op.s, op.value[1], op.value[2])

\* C8 as amended: parse_args drops the leading whitespace of the text and splits what
\* is left on its first run of whitespace: the key has no whitespace and is empty
\* only when the text is empty or all whitespace, the remainder is the text after
\* the run that follows the key, verbatim; 'foo bar a b c' gives ('foo', 'bar a b c').
C8_SplitsAfterLeadingWhitespace ==
    /\ (op.name = "parse_args") =>
          /\ SplitsAt(lstripped(op.s), op.value[1], op.value[2])
          /\ op.value[1] = <<>> => (AllWhitespace(op.s) /\ op.value[2] = <<>>)
          /\ NoWhitespace(op.s) => op.value = <<op.s, <<>>>>
    /\ parse_args(<<"f", "o", "o", " ", "b", "a", "r", " ", "a", " ", "b", " ", "c">>)
          = << <<"f", "o", "o">>, <<"b", "a", "r", " ", "a", " ", "b", " ", "c">> >>

\* a text with leading whitespace, a key, a run of two and a remainder was split
C8_Witness ==
    /\ op.name = "parse_args"
    /\ Len(op.s) = 4
    /\ op.s[1] \in Whitespace
    /\ op.s[3] \in Whitespace
    /\ op.value[1] # <<>>
    /\ op.value[2] # <<>>

----------------------------------------------------------------------------
(* Properties of the Help command, under SpecRegistry *)

\* the help of the bot's own dispatcher, as Help.__call__ returns it
RootHelp == fenced(help(dispatchers["bot"], NoCommand))

\* the command Help.__call__ looked up in the last call
Asked == get(dispatchers["bot"], op.text)

\* C9 as stated: asked about a key that matches no command, or a command without
\* subcommands, Help returns the help of the root registry.
C9_FallsBackToRoot ==
    (op.name = "Help" /\ (Asked = NoCommand \/ Asked.subcommands = NoDispatcher))
        => op.value = RootHelp

\* C9 as amended: asked about a key that matches no command, Help returns the help of
\* the root registry; asked about a command without subcommands, it returns that
\* command's own line 'key argspec description' between the triple-backtick markers.
C9_FallsBackOnNoMatch ==
    (op.name = "Help") =>
        /\ Asked = NoCommand => op.value = RootHelp
        /\ (Asked # NoCommand /\ Asked.subcommands = NoDispatcher) =>
              op.value = <<Backtick, Backtick, Backtick>>
                            \o Asked.key \o <<" ">> \o Asked.argspec \o <<" ">> \o Asked.description
                            \o <<Backtick, Backtick, Backtick>>

\* Help was asked about a command without subcommands while two commands were
\* registered, and what it returned is not the help of the root registry
C9_Witness ==
    /\ op.name = "Help"
    /\ Asked # NoCommand
    /\ Asked.subcommands = NoDispatcher
    /\ Len(dispatchers["bot"]._commands) = 2
    /\ op.value # RootHelp

Spaces(n) == [i \in 1..n |-> " "]

\* s cut at every newline
RECURSIVE SplitLines(_)
SplitLines(s) ==
    LET nl == {i \in 1..Len(s) : s[i] = "\n"}
        first == CHOOSE i \in nl : \A j \in nl : i <= j
    IN  IF nl = {} THEN <<s>>
        ELSE <<SubSeq(s, 1, first - 1)>> \o SplitLines(SubSeq(s, first + 1, Len(s)))

\* line is name, argspec and description in this order, one space apart, with
\* padding only in front of name and in front of argspec
IsHelpLine(line, name, argspec, description) ==
    \E a, b \in 0..Len(line) :
        line = Spaces(a) \o name \o <<" ">> \o Spaces(b) \o argspec \o <<" ">> \o description

\* body is the help of dispatcher self: a header line for parent if there is one,
\* then one line per entry in insertion order, each key behind the parent's key
Renders(body, self, parent) ==
    LET values == DictValues(self._commands)
        lines == SplitLines(body)
        h == IF parent = NoCommand THEN 0 ELSE 1
        prefix == IF parent = NoCommand THEN <<>> ELSE parent.key \o <<" ">>
    IN  IF h + Len(values) = 0 THEN body = <<>>
        ELSE /\ Len(lines) = h + Len(values)
             /\ h = 1 => IsHelpLine(lines[1], parent.key, parent.argspec, parent.description)
             /\ \A i \in 1..Len(values) :
                    IsHelpLine(lines[h + i], prefix \o values[i].key,
                               values[i].argspec, values[i].description)

\* C10: Help returns its text between two triple-backtick markers; asked with empty
\* input it renders the root registry; asked about a command that has subcommands it
\* renders that sub-registry with a header line for the command and every
\* sub-entry's key behind the command's key and a space.
C10_HelpScopes ==
    (op.name = "Help") =>
        LET body == SubSeq(op.value, 4, Len(op.value) - 3)
        IN  /\ Len(op.value) >= 6
            /\ SubSeq(op.value, 1, 3) = <<Backtick, Backtick, Backtick>>
            /\ SubSeq(op.value, Len(op.value) - 2, Len(op.value)) = <<Backtick, Backtick, Backtick>>
            /\ op.text = <<>> => Renders(body, dispatchers["bot"], NoCommand)
            /\ (Asked # NoCommand /\ Asked.subcommands # NoDispatcher) =>
                  Renders(body, dispatchers[Asked.subcommands], Asked)

\* Help was asked about a command whose sub-registry holds two commands
C10_Witness ==
    /\ op.name = "Help"
    /\ Asked # NoCommand
    /\ Asked.subcommands # NoDispatcher
    /\ Len(dispatchers[Asked.subcommands]._commands) = 2
    /\ Len(SplitLines(op.value)) = 3

\* the rows of the table help(self, parent) renders: the parent's row if there is a
\* parent, then one row per entry, each with the name shown in the key column
Rows(self, parent) ==
    LET values == DictValues(self._commands)
        prefix == IF parent = NoCommand THEN <<>> ELSE parent.key \o <<" ">>
    IN  (IF parent = NoCommand THEN <<>>
         ELSE <<[name |-> parent.key, argspec |-> parent.argspec,
                 description |-> parent.description]>>)
        \o [i \in 1..Len(values) |->
               [name |-> prefix \o values[i].key, argspec |-> values[i].argspec,
                description |-> values[i].description]]

\* every line holds its row's name in a key field of kw characters, a space, its
\* argspec in a field of aw characters, a space, and its description
Aligned(lines, rows) ==
    \/ rows = <<>>
    \/ /\ Len(lines) = Len(rows)
       /\ \E kw, aw \in 0..MaxOf({Len(lines[i]) : i \in 1..Len(lines)}) :
              \A i \in 1..Len(rows) :
                  /\ Len(rows[i].name) <= kw
                  /\ Len(rows[i].argspec) <= aw
                  /\ lines[i] = Spaces(kw - Len(rows[i].name)) \o rows[i].name \o <<" ">>
                                  \o Spaces(aw - Len(rows[i].argspec)) \o rows[i].argspec
                                  \o <<" ">> \o rows[i].description

\* C11: every help block Help renders from registered dispatchers is a column-aligned
\* table: in all its lines, the header included, the key field has one width and
\* the argspec field has one width, so every description starts at the same column.
C11_ColumnsAligned ==
    (op.name = "Help") =>
        LET lines == SplitLines(SubSeq(op.value, 4, Len(op.value) - 3))
        IN  /\ Asked = NoCommand => Aligned(lines, Rows(dispatchers["bot"], NoCommand))
            /\ (Asked # NoCommand /\ Asked.subcommands # NoDispatcher) =>
                  Aligned(lines, Rows(dispatchers[Asked.subcommands], Asked))

\* the registry of the example: a (argspec '', description 'first'), then bb
\* (argspec 'x', description 'second')
ExampleRegistry ==
    register_command(
        register_command(CommandDispatcher, <<"a">>, "pong", <<>>,
                         <<"f", "i", "r", "s", "t">>, NoDispatcher).self,
        <<"b", "b">>, "echo", <<"x">>, <<"s", "e", "c", "o", "n", "d">>, NoDispatcher).self

\* C12: the help of a dispatcher is one line per entry in insertion order (no line
\* at all for no entry), with one header line for the parent in front exactly when
\* a parent is given; the registry a, bb without a parent gives ' a   first' and
\* 'bb x second': keys right-justified to width 2, argspecs to width 1.
C12_OneLinePerEntry ==
    /\ (op.name = "Help" /\ (Asked = NoCommand \/ Asked.subcommands # NoDispatcher)) =>
          LET self == IF Asked = NoCommand THEN dispatchers["bot"]
                      ELSE dispatchers[Asked.subcommands]
              rows == Rows(self, Asked)
              body == SubSeq(op.value, 4, Len(op.value) - 3)
              lines == IF body = <<>> THEN <<>> ELSE SplitLines(body)
          IN  /\ Len(lines) = Len(self._commands) + (IF Asked = NoCommand THEN 0 ELSE 1)
              /\ \A i \in 1..Len(lines) :
                     IsHelpLine(lines[i], rows[i].name, rows[i].argspec, rows[i].description)
    /\ help_texts(ExampleRegistry, NoCommand)
          = << <<" ", "a", " ", " ", " ", "f", "i", "r", "s", "t">>,
               <<"b", "b", " ", "x", " ", "s", "e", "c", "o", "n", "d">> >>

\* the root help of two commands registered with keys and argspecs of different
\* lengths was rendered without a header
C12_Witness ==
    /\ op.name = "Help"
    /\ Asked = NoCommand
    /\ Len(dispatchers["bot"]._commands) = 2
    /\ Len(dispatchers["bot"]._commands[1].k) # Len(dispatchers["bot"]._commands[2].k)
    /\ Len(dispatchers["bot"]._commands[1].v.argspec)
          # Len(dispatchers["bot"]._commands[2].v.argspec)
    /\ Len(SplitLines(op.value)) = 2

----------------------------------------------------------------------------
(* Properties of the addressing prefix and of the loop's filters, under Spec *)

\* the display name of a sender, '' when the login data named no such user
DisplayName(user) == IF user \in DOMAIN user_names THEN user_names[user] ELSE <<>>

\* the last operation was a loop iteration on a message of another author than the
\* bot whose handler returned non-empty text: a response was just sent for it
Replied == ReceivedMessage /\ op.msg.user # bot_id /\ Reply(op.msg)

\* C13 as stated: the text of every response sent is the handler's text behind the
\* sender's display name and ', ' in a channel-type conversation, and the handler's
\* text alone in a direct conversation (channel id starting with D).
C13_PrefixIsSenderName ==
    Replied =>
        Last(sent).text
            = (IF startswithD(op.msg.channel) THEN <<>>
               ELSE DisplayName(op.msg.user) \o <<",", " ">>)
              \o HandlerOutcome(op.msg).value

\* C13 as amended: the text of every response sent is the handler's text, unaltered,
\* behind a prefix: the sender's display name and ', ' in a channel-type
\* conversation when the sender has a non-empty display name, and nothing in a
\* direct conversation (channel id starting with D) or when the sender has none.
C13_PrefixIsKnownSenderName ==
    Replied =>
        Last(sent).text
            = (IF ~startswithD(op.msg.channel) /\ DisplayName(op.msg.user) # <<>>
               THEN DisplayName(op.msg.user) \o <<",", " ">>
               ELSE <<>>)
              \o HandlerOutcome(op.msg).value

\* a reply went to a channel behind 'al, ', and then one to a direct conversation
\* of the same sender with the handler's text alone
C13_Witness ==
    /\ Replied
    /\ Len(sent) = 2
    /\ ~startswithD(sent[1].channel)
    /\ SubSeq(sent[1].text, 1, 4) = <<"a", "l", ",", " ">>
    /\ startswithD(op.msg.channel)
    /\ op.msg.user = "U1"
    /\ Last(sent).text = HandlerOutcome(op.msg).value

\* C14: a loop iteration on a message whose sender is the bot itself invokes no
\* handler, sends nothing, leaves response_id as it was and keeps the loop running,
\* whatever its text is, a text that starts with a registered key included.
C14_OwnMessagesIgnored ==
    [][(op'.name = "recv" /\ nrecv' = nrecv + 1 /\ op'.msg.type = "message"
          /\ op'.msg.user = bot_id)
         => (/\ calls' = <<>>
             /\ sent' = sent
             /\ response_id' = response_id
             /\ pc' = pc)]_vars

\* after one reply, a message of the bot itself whose key is registered and whose
\* handler would have replied was received
C14_Witness ==
    /\ ReceivedMessage
    /\ op.msg.user = bot_id
    /\ Reply(op.msg)
    /\ calls = <<>>
    /\ Len(sent) = 1
    /\ response_id = 2
    /\ nrecv = 2

\* C15: the loop handles one event at a time, in the order received: an event is
\* read only when no send is pending; the iteration that reads event number i hands
\* the response to it, if there is one, to the socket behind all the responses sent
\* before and with the response id of that moment, and waits for that send to
\* return before event i + 1 is read; so the responses are sent in the order of
\* their messages, with increasing ids.
C15_RepliesInOrder ==
    [][(op'.name = "recv" /\ nrecv' = nrecv + 1) =>
          /\ pc = "running"
          /\ IF op'.msg.type = "message" /\ op'.msg.user # bot_id /\ Reply(op'.msg)
             THEN /\ sent' = Append(sent, [id |-> response_id, type |-> "message",
                                           channel |-> op'.msg.channel,
                                           text |-> _calculate_prefix(op'.msg)
                                                       \o HandlerOutcome(op'.msg).value])
                  /\ pc' = "send"
             ELSE sent' = sent /\ pc' # "send"
          /\ \A j \in 1..Len(sent') : \A i \in 1..(j - 1) : sent'[i].id < sent'[j].id]_vars

\* three events were read, the last one a message that was answered, and the two
\* responses sent so far went to different conversations
C15_Witness ==
    /\ Replied
    /\ nrecv = 3
    /\ Len(sent) = 2
    /\ sent[1].channel # sent[2].channel
    /\ sent[1].text # sent[2].text
    /\ sent[1].id < sent[2].id

\* what Jenkins.process makes of a message handled by jk: the key and the remainder
\* of its second split, the subcommand looked up and what calling it gives
SubKeyOf(msg) == parse_args(RestOf(msg))[1]

SubRestOf(msg) == parse_args(RestOf(msg))[2]

Subcommand(msg) == get(dispatchers["jenkins"], SubKeyOf(msg))

SubOutcome(msg) == BotCommand_call(Subcommand(msg), SubRestOf(msg))

ProcessCall(msg) == [func |-> "Jenkins.process", input_text |-> RestOf(msg)]

\* Jenkins.jobs once reload_jobs was answered the job My
JobsMy == <<[k |-> <<"m", "y">>, v |-> [name |-> <<"M", "y">>, url |-> <<"u">>]]>>

\* Jenkins.jobs once reload_jobs was answered the jobs ab and A U+00C9 -2 U+0663 b
JobsAb ==
    <<[k |-> <<"a", "b">>, v |-> [name |-> <<"a", "b">>, url |-> <<"x">>]],
      [k |-> <<"a", "U+00E9", "b">>,
       v |-> [name |-> <<"A", "U+00C9", "-", "2", "U+0663", "b">>, url |-> <<"y">>]]>>

\* C16: a loop iteration on a message whose key is jk, the command whose handler
\* dispatches into the Jenkins dispatcher: the handler gets the remainder and splits
\* it again; a registered subcommand is invoked once with the second remainder and
\* what it returns is the result: non-empty text is sent behind the prefix
\* unchanged, no text sends nothing; an unknown subcommand invokes nothing more and
\* sends nothing. 'jk info a' invokes info with 'a' and, once the jobs were loaded
\* with the job My at u, sends its 'Found My (u)'; loaded with the jobs ab and
\* A U+00C9 -2 U+0663 b (keys ab and a U+00E9 b), 'jk info a' finds ab, the first of
\* the two jobs whose key has an a, and 'jk info U+00C9' finds the other.
C16_NestedPassThrough ==
    [][(op'.name = "recv" /\ nrecv' = nrecv + 1 /\ op'.msg.type = "message"
          /\ op'.msg.user # bot_id /\ KeyOf(op'.msg) = <<"j", "k">>) =>
          /\ Subcommand(op'.msg) = NoCommand =>
                calls' = <<ProcessCall(op'.msg)>> /\ sent' = sent /\ pc' = "running"
          /\ Subcommand(op'.msg) # NoCommand =>
                /\ calls' = <<ProcessCall(op'.msg),
                              [func |-> Subcommand(op'.msg).func,
                               input_text |-> SubRestOf(op'.msg)]>>
                /\ (~SubOutcome(op'.msg).raised /\ Truthy(SubOutcome(op'.msg).value)) =>
                      /\ Len(sent') = Len(sent) + 1
                      /\ Last(sent').text
                            = _calculate_prefix(op'.msg) \o SubOutcome(op'.msg).value
                /\ (~SubOutcome(op'.msg).raised /\ ~Truthy(SubOutcome(op'.msg).value)) =>
                      sent' = sent /\ pc' = "running"
          /\ op'.msg.text \in {<<"j", "k", " ", "i", "n", "f", "o", " ", "a">>,
                                <<"j", "k", " ", "i", "n", "f", "o", "\r", "a">>} =>
                /\ calls'[2] = [func |-> "Jenkins.info", input_text |-> <<"a">>]
                /\ jobs = <<>> => sent' = sent
                /\ jobs = JobsMy =>
                      Last(sent').text
                         = _calculate_prefix(op'.msg)
                              \o <<"F", "o", "u", "n", "d", " ", "M", "y", " ", "(", "u", ")">>
                /\ jobs = JobsAb =>
                      Last(sent').text
                         = _calculate_prefix(op'.msg)
                              \o <<"F", "o", "u", "n", "d", " ", "a", "b", " ", "(", "x", ")">>
          /\ (op'.msg.text = <<"j", "k", " ", "i", "n", "f", "o", " ", "U+00C9">>
                /\ jobs = JobsAb) =>
                Last(sent').text
                   = _calculate_prefix(op'.msg)
                        \o <<"F", "o", "u", "n", "d", " ", "A", "U+00C9", "-", "2", "U+0663",
                             "b", " ", "(", "y", ")">>]_vars

\* 'jk info a' was answered, then 'jk zz' (no such subcommand) and 'jk info' (a
\* subcommand returning nothing) were not
C16_Witness ==
    /\ ReceivedMessage
    /\ op.msg.user # bot_id
    /\ nrecv = 3
    /\ Len(sent) = 1
    /\ Len(sent[1].text) >= 12
    /\ SubSeq(sent[1].text, Len(sent[1].text) - 11, Len(sent[1].text))
          = <<"F", "o", "u", "n", "d", " ", "M", "y", " ", "(", "u", ")">>
    /\ \/ op.msg.text = <<"j", "k", " ", "z", "z">> /\ Len(calls) = 1
       \/ op.msg.text = <<"j", "k", " ", "i", "n", "f", "o">> /\ Len(calls) = 2

\* C17: processing an event changes no dispatcher: every step of the loop (the
\* iteration on an event, whatever it is: a message matched or not, answered or not,
\* a help request, a nested dispatch, a handler that raises; the return of a send; a
\* failure to receive) leaves the entries, their order and the widths of the bot's
\* and the Jenkins dispatcher as they were.
C17_RegistryReadOnly ==
    [][op'.name \in {"recv", "send", "transport_error"} => dispatchers' = dispatchers]_vars

\* a help request about the command with subcommands was answered as the third
\* event, after a nested dispatch was answered, with all the commands of the setup
\* registered and the command late, registered by a callback since start() was called
C17_Witness ==
    /\ Replied
    /\ pc = "send"
    /\ nrecv = 3
    /\ op.msg.text = <<"h", "e", "l", "p", " ", "j", "k">>
    /\ Len(sent) >= 2
    /\ \E k \in 1..(Len(sent) - 1) :
          /\ Len(sent[k].text) >= 12
          /\ SubSeq(sent[k].text, Len(sent[k].text) - 11, Len(sent[k].text))
                = <<"F", "o", "u", "n", "d", " ", "M", "y", " ", "(", "u", ")">>
    /\ Len(dispatchers["bot"]._commands) = 7
    /\ Last(dispatchers["bot"]._commands).k = <<"l", "a", "t", "e">>
    /\ Len(dispatchers["jenkins"]._commands) = 2
    /\ dispatchers["jenkins"].command_width = 4

\* C18: after a transport error (the connection dropped, or a frame that cannot be
\* decoded) the bot is still in its loop or on its way back to it: the error did
\* not end start(), so that events sent later are received and dispatched.
C18_TransportErrorRecovered ==
    (op.name = "transport_error") => pc # "crashed"

\* C19: a loop iteration on an event whose type is not message invokes no handler,
\* sends nothing and leaves response_id, the dispatchers, bot_id, user_names, the
\* jobs and the loop as they were; on channel_joined and group_joined the channel's id is mapped
\* to its name in channel_names, in place if the id was there and as a new last
\* entry if not, every other entry staying as it was; on any other type
\* channel_names is unchanged too.
C19_OtherEventsOnlyUpsert ==
    [][(op'.name = "recv" /\ nrecv' = nrecv + 1 /\ op'.msg.type # "message") =>
          /\ calls' = <<>>
          /\ sent' = sent
          /\ response_id' = response_id
          /\ UNCHANGED <<dispatchers, bot_id, user_names, pc, jobs>>
          /\ IF op'.msg.type \in {"channel_joined", "group_joined"}
             THEN LET known == \E i \in 1..Len(channel_names) :
                                   channel_names[i].k = op'.msg.channel
                  IN  /\ Len(channel_names') = Len(channel_names) + (IF known THEN 0 ELSE 1)
                      /\ \A i \in 1..Len(channel_names) :
                             /\ channel_names'[i].k = channel_names[i].k
                             /\ channel_names'[i].v = IF channel_names[i].k = op'.msg.channel
                                                      THEN op'.msg.name
                                                      ELSE channel_names[i].v
                      /\ ~known => Last(channel_names')
                                       = [k |-> op'.msg.channel, v |-> op'.msg.name]
             ELSE channel_names' = channel_names]_vars

\* after a reply was sent, a join added a channel and a join of the channel known
\* from the login gave it a new name
C19_Witness ==
    /\ op.name = "recv"
    /\ op.msg.type \in {"channel_joined", "group_joined"}
    /\ nrecv = 3
    /\ Len(sent) = 1
    /\ response_id = 2
    /\ channel_names = <<[k |-> <<"C", "1">>, v |-> <<"d", "e", "v">>],
                         [k |-> <<"G", "2">>, v |-> <<"d", "e", "v">>]>>

\* C20: when a message in a channel-type conversation (channel id not starting
\* with D) comes from a sender whose id is not in user_names, the prefix computed
\* is '' and the text of the response sent is the handler's text exactly, with no
\* ', ' in front.
C20_UnknownSenderNoPrefix ==
    (Replied /\ ~startswithD(op.msg.channel) /\ op.msg.user \notin DOMAIN user_names) =>
        /\ _calculate_prefix(op.msg) = <<>>
        /\ Last(sent).text = HandlerOutcome(op.msg).value

\* after a named sender was answered behind its name in a channel, a sender the
\* login data did not name was answered 'pong' in the same channel
C20_Witness ==
    /\ Replied
    /\ op.msg.user = "U2"
    /\ op.msg.channel = <<"C", "1">>
    /\ Len(sent) = 2
    /\ sent[1].channel = <<"C", "1">>
    /\ sent[1].text = <<"a", "l", ",", " ", "p", "o", "n", "g">>
    /\ sent[2].text = <<"p", "o", "n", "g">>

====
